---- MODULE Spec2Model ----
(***************************************************************************)
(* A model of generate_docs.py: the documentation extractor that reads     *)
(* Gleam source files and writes JSON-LD documents.                        *)
(*                                                                         *)
(* Text is modelled as a sequence of one-character strings, so that the    *)
(* scanning, splitting and pattern matching of the source are computed     *)
(* character by character as the code computes them.  A file's content is  *)
(* the sequence of its lines (content.split('\n')).                        *)
(***************************************************************************)
EXTENDS Integers, Sequences, FiniteSets, TLC

(***************************************************************************)
(* Text helpers (Python's str methods used by the code).                   *)
(***************************************************************************)
NL == "\n"

\* F applied to the value of v: "x = v; F(x)".  The value is worked out once and
\* then used by name, as an assignment of the code does.
Bind(v, F(_)) == CHOOSE r \in {F(x) : x \in {v}} : TRUE

\* The least element of a set of positions, 0 when it is empty.
First(S) ==
    Bind(S, LAMBDA v : IF v = {} THEN 0 ELSE CHOOSE x \in v : \A y \in v : x <= y)

\* The greatest element of a set of positions, 0 when it is empty.
Last(S) ==
    Bind(S, LAMBDA v : IF v = {} THEN 0 ELSE CHOOSE x \in v : \A y \in v : x >= y)

\* str.isspace for the characters of the model.
IsSpace(c) == c \in {" ", NL}

\* The characters \w matches.
WordChars ==
    {"a","b","c","d","e","f","g","h","i","j","k","l","m","n","o","p","q","r",
     "s","t","u","v","w","x","y","z",
     "A","B","C","D","E","F","G","H","I","J","K","L","M","N","O","P","Q","R",
     "S","T","U","V","W","X","Y","Z",
     "0","1","2","3","4","5","6","7","8","9","_"}

\* s[i:] with i counted from 1.
From(s, i) == SubSeq(s, i, Len(s))

\* Whether pat occurs in s at position i.
MatchAt(s, pat, i) ==
    /\ i >= 1
    /\ i + Len(pat) - 1 <= Len(s)
    /\ SubSeq(s, i, i + Len(pat) - 1) = pat

\* s.startswith(pat)
StartsWith(s, pat) == MatchAt(s, pat, 1)

\* s.find(pat, i): the least position >= i where pat occurs, 0 when none.
FindFrom(s, pat, i) == First({p \in i..Len(s) : MatchAt(s, pat, p)})

\* pat in s
Contains(s, pat) == FindFrom(s, pat, 1) # 0

\* The least position >= i of s that holds no whitespace (Len(s)+1 when none).
SkipSpace(s, i) ==
    IF i > Len(s) THEN i
    ELSE First({j \in i..Len(s) + 1 : j = Len(s) + 1 \/ ~IsSpace(s[j])})

\* The greatest position <= i of s that holds no whitespace (0 when none).
SkipSpaceBack(s, i) == Last({j \in 1..i : ~IsSpace(s[j])})

\* s.strip()
Strip(s) == SubSeq(s, SkipSpace(s, 1), SkipSpaceBack(s, Len(s)))

\* The least position >= i of s that holds no word character.
SkipWord(s, i) ==
    IF i > Len(s) THEN i
    ELSE First({j \in i..Len(s) + 1 : j = Len(s) + 1 \/ s[j] \notin WordChars})

\* sep.join(parts)
RECURSIVE Join(_, _)
Join(parts, sep) ==
    IF Len(parts) = 0 THEN <<>>
    ELSE IF Len(parts) = 1 THEN parts[1]
    ELSE parts[1] \o sep \o Join(Tail(parts), sep)

\* s.split(c) for a one-character separator c: the parts from position i on.
RECURSIVE SplitFrom(_, _, _)
SplitFrom(s, c, i) ==
    Bind(FindFrom(s, <<c>>, i), LAMBDA p :
    IF p = 0 THEN <<From(s, i)>>
    ELSE <<SubSeq(s, i, p - 1)>> \o SplitFrom(s, c, p + 1))

Split(s, c) == SplitFrom(s, c, 1)

\* s.replace(a, b) for one-character a and b.
ReplaceChar(s, a, b) == [i \in 1..Len(s) |-> IF s[i] = a THEN b ELSE s[i]]

\* s.replace(pat, '') for a non-empty pat, from position i on.
RECURSIVE RemoveAll(_, _, _)
RemoveAll(s, pat, i) ==
    Bind(FindFrom(s, pat, i), LAMBDA p :
    IF p = 0 THEN From(s, i)
    ELSE SubSeq(s, i, p - 1) \o RemoveAll(s, pat, p + Len(pat)))

(***************************************************************************)
(* parse_function_signature                                                *)
(***************************************************************************)
\* Python's None where a text is expected (a missing label, a regex group that did
\* not match): no text is a sequence holding a four-letter string.
None == <<"None">>

\* Python's None where a dictionary is expected (no signature, no match).
NoneInfo == [none |-> TRUE]

PubFnKw == <<"p","u","b"," ","f","n">>
PubFnSp == <<"p","u","b"," ","f","n"," ">>
Arrow == <<"-",">">>

\* The lines collected into the signature: from lines[i] on, each stripped, up to
\* and including the first one that holds '{' and does not start with 'pub fn'.
RECURSIVE SigLines(_, _)
SigLines(lines, i) ==
    IF i > Len(lines) THEN <<>>
    ELSE Bind(Strip(lines[i]), LAMBDA line :
         IF Contains(line, <<"{">>) /\ ~StartsWith(Strip(line), PubFnKw)
         THEN <<line>>
         ELSE <<line>> \o SigLines(lines, i + 1))

\* Whether r'pub fn (\w+)\(' matches at position p of s: 'pub fn ', a run of word
\* characters, '('.
NameMatchAt(s, p) ==
    /\ MatchAt(s, PubFnSp, p)
    /\ Bind(SkipWord(s, p + 7), LAMBDA e : e > p + 7 /\ e <= Len(s) /\ s[e] = "(")

\* re.search(r'pub fn (\w+)\(', s): the least position where it matches, 0 when
\* there is none.
NameMatch(s) == First({p \in 1..Len(s) : NameMatchAt(s, p)})

\* The number of positions in from..to of s that hold a character of chars.
Count(s, chars, from, to) == Cardinality({k \in from..to : s[k] \in chars})

\* The loop that finds the parameter list's closing paren: depth starts at 1 at
\* position start, goes up at '(' and down at ')'; the loop stops at the first ')'
\* that brings it to 0.  The position of that ')', or 0 when the loop runs out.
ParenDepth(s, start, i) == 1 + Count(s, {"("}, start, i) - Count(s, {")"}, start, i)

ClosingParen(s, start) ==
    First({i \in start..Len(s) : s[i] = ")" /\ ParenDepth(s, start, i) = 0})

\* The least position >= i of s that holds '{' (Len(s)+1 when none).
SkipToBrace(s, i) ==
    IF i > Len(s) THEN i
    ELSE First({j \in i..Len(s) + 1 : j = Len(s) + 1 \/ s[j] = "{"})

\* Group 1 of r'\s*([^{]+)' tried at position b of s (right after '->'), None when
\* it does not match.  The greedy \s* takes all the whitespace; when nothing but
\* '{' (or the end) follows, it gives one whitespace character back and the group
\* is that character.
ReturnGroupAfter(s, b) ==
    Bind(SkipSpace(s, b), LAMBDA c :
    Bind(SkipToBrace(s, c), LAMBDA e :
    IF e > c THEN SubSeq(s, c, e - 1)
    ELSE IF c > b THEN SubSeq(s, c - 1, c - 1)
    ELSE None))

\* What group 1 of r'\)\s*->\s*([^{]+)' captures when the pattern is tried at
\* position j of s, None when it does not match there.
ReturnGroupAt(s, j) ==
    IF s[j] # ")" THEN None
    ELSE Bind(SkipSpace(s, j + 1), LAMBDA a :
         IF MatchAt(s, Arrow, a) THEN ReturnGroupAfter(s, a + 2) ELSE None)

\* re.search(r'\)\s*->\s*([^{]+)', s).group(1), None when there is no match.
ReturnMatch(s) ==
    Bind(First({j \in 1..Len(s) : ReturnGroupAt(s, j) # None}), LAMBDA j :
    IF j = 0 THEN None ELSE ReturnGroupAt(s, j))

\* The parameter splitter reads the text left to right with one depth counter:
\* up at '(' and '<', down at ')' and '>'.  A '-' followed by '>' is taken as one
\* token: the loop jumps over that '>', which therefore never changes the depth.
ArrowTail(s, k) == k > 1 /\ s[k] = ">" /\ s[k - 1] = "-"

\* The splitter with the nesting lost: the depth is 0 wherever the loop is, so
\* every comma splits.
DepthLost(s, i) == 0

\* The depth counter when the loop reaches position i.
DepthBefore(s, i) ==
    Cardinality({k \in 1..i - 1 : s[k] \in {"(", "<"}})
    - Cardinality({k \in 1..i - 1 : s[k] \in {")", ">"} /\ ~ArrowTail(s, k)})

\* The positions where the text is split: the commas read at depth 0.
SplitCommas(s) == {i \in 1..Len(s) : s[i] = "," /\ DepthBefore(s, i) = 0}

\* The part that ends before position stop, stripped; no part when that is empty.
ParamPart(s, i, stop) ==
    Bind(Strip(SubSeq(s, i, stop - 1)), LAMBDA current :
    IF current # <<>> THEN <<current>> ELSE <<>>)

\* param_parts from position i on, commas being the split positions.
RECURSIVE SplitParamsFrom(_, _, _)
SplitParamsFrom(s, commas, i) ==
    Bind(First({c \in commas : c >= i}), LAMBDA stop :
    IF stop = 0 THEN ParamPart(s, i, Len(s) + 1)
    ELSE ParamPart(s, i, stop) \o SplitParamsFrom(s, commas, stop + 1))

SplitParams(s) == Bind(SplitCommas(s), LAMBDA commas : SplitParamsFrom(s, commas, 1))

\* r'(\w+)\s*:\s*(.+)' tried at position i of s with the given label: the name is
\* the run of word characters at i, then optional whitespace, ':', optional
\* whitespace and at least one more character (the signature is one line: '.'
\* matches every character of it; s is stripped, so the type does not end in
\* whitespace).
NameColonType(s, i, label) ==
    Bind(SkipWord(s, i), LAMBDA n :
    Bind(SkipSpace(s, n), LAMBDA c :
    IF n > i /\ c < Len(s) /\ s[c] = ":"
    THEN [name |-> SubSeq(s, i, n - 1),
          label |-> label,
          type |-> Strip(From(s, SkipSpace(s, c + 1)))]
    ELSE NoneInfo))

\* The attempt with a label: a word, whitespace, and then name, colon and type.
LabelledMatch(s) ==
    Bind(SkipWord(s, 1), LAMBDA w :
    Bind(SkipSpace(s, w), LAMBDA n :
    IF w > 1 /\ n > w THEN NameColonType(s, n, SubSeq(s, 1, w - 1)) ELSE NoneInfo))

\* re.match(r'(?:(\w+)\s+)?(\w+)\s*:\s*(.+)', s): first with a label, then without.
ParamMatch(s) ==
    Bind(LabelledMatch(s), LAMBDA labelled :
    IF labelled # NoneInfo THEN labelled ELSE NameColonType(s, 1, None))

\* The parameter of one part, in a list; the empty list when it does not match.
ParamOf(part) ==
    Bind(Strip(part), LAMBDA param_str :
    IF param_str = <<>> THEN <<>>
    ELSE Bind(ParamMatch(param_str), LAMBDA m :
         IF m # NoneInfo THEN <<m>> ELSE <<>>))

\* The parameters: the parts that match, in order; the others are dropped.
RECURSIVE ParseParams(_)
ParseParams(parts) ==
    IF Len(parts) = 0 THEN <<>>
    ELSE ParamOf(parts[1]) \o ParseParams(Tail(parts))

\* parse_function_signature(lines, start_idx), start_idx counted from 1.
parse_function_signature(lines, start_idx) ==
    Bind(Join(SigLines(lines, start_idx), <<" ">>), LAMBDA full_sig :
    Bind(NameMatch(full_sig), LAMBDA m :
    IF m = 0 THEN NoneInfo ELSE
    Bind(SkipWord(full_sig, m + 7), LAMBDA name_end :
    Bind(ClosingParen(full_sig, name_end + 1), LAMBDA close :
    Bind(IF close = 0 THEN name_end + 1 ELSE close, LAMBDA params_end :
    Bind(ReturnMatch(From(full_sig, params_end)), LAMBDA return_group :
    IF return_group = None THEN NoneInfo ELSE
    Bind(Strip(SubSeq(full_sig, name_end + 1, params_end - 1)), LAMBDA params_str :
    [name |-> SubSeq(full_sig, m + 7, name_end - 1),
     parameters |-> ParseParams(SplitParams(params_str)),
     returnType |-> Strip(return_group)])))))))

(***************************************************************************)
(* extract_examples                                                        *)
(***************************************************************************)
TripleSlash == <<"/","/","/">>
\* The backquote character: it is written "tick" here (a backquote cannot be
\* written inside a string of this notation).
Tick == "tick"
Fence == <<Tick,Tick,Tick>>
GleamFence == Fence \o <<"g","l","e","a","m","\n">>
CloseFence == <<"\n">> \o Fence
Marker == <<"/","/"," ","-",">">>
LineComment == <<"/","/">>
ImportKw == <<"i","m","p","o","r","t">>
LetSp == <<"l","e","t"," ">>
Pipe == <<"|",">">>

\* The number of examples kept for a function.
MaxExamples == 4

\* Whether '^///' (MULTILINE) matches at position p: '///' at the start of the
\* text or right after a line break.
TripleSlashAt(doc, p) == (p = 1 \/ doc[p - 1] = NL) /\ MatchAt(doc, TripleSlash, p)

\* re.sub(r'^///\s*', '', doc, flags=re.MULTILINE): at the start of the text and
\* after every line break, '///' is removed together with ALL the whitespace that
\* follows it, line breaks included.
RECURSIVE DocClean(_, _)
DocClean(doc, i) ==
    Bind(First({p \in i..Len(doc) : TripleSlashAt(doc, p)}), LAMBDA p :
    IF p = 0 THEN From(doc, i)
    ELSE SubSeq(doc, i, p - 1) \o DocClean(doc, SkipSpace(doc, p + 3)))

\* re.finditer of the pattern 'FENCE gleam \n (.*?) \n FENCE' (DOTALL): group 1 of
\* each match, in order.
RECURSIVE CodeBlocks(_, _)
CodeBlocks(s, i) ==
    Bind(FindFrom(s, GleamFence, i), LAMBDA p :
    IF p = 0 THEN <<>> ELSE
    Bind(FindFrom(s, CloseFence, p + Len(GleamFence)), LAMBDA e :
    IF e = 0 THEN <<>>
    ELSE <<SubSeq(s, p + Len(GleamFence), e - 1)>>
         \o CodeBlocks(s, e + Len(CloseFence))))

\* x in examples
InSeq(x, seq) == \E k \in 1..Len(seq) : seq[k] = x

\* The line before a marker line as an example: the pipe prefix removed, None when
\* the line is skipped.
ExampleOf(example, examples) ==
    IF \/ example = <<>>
       \/ StartsWith(example, LineComment)
       \/ StartsWith(example, ImportKw)
    THEN None
    ELSE Bind(IF StartsWith(example, Pipe) THEN Strip(From(example, 3)) ELSE example,
              LAMBDA piped :
              IF StartsWith(piped, LetSp) \/ piped = <<>> \/ InSeq(piped, examples)
              THEN None
              ELSE piped)

\* The example taken from the line before lines[i], None when none is taken.
Candidate(lines, i, examples) ==
    IF Contains(Strip(lines[i]), Marker)
    THEN ExampleOf(Strip(lines[i - 1]), examples)
    ELSE None

\* The scan of one block's lines from lines[i] on (i > 1: the block's first line is
\* never a marker line); it stops as soon as MaxExamples are held.
RECURSIVE ScanBlock(_, _, _)
ScanBlock(lines, i, examples) ==
    IF i > Len(lines) \/ Len(examples) >= MaxExamples THEN examples
    ELSE Bind(Candidate(lines, i, examples), LAMBDA c :
         ScanBlock(lines, i + 1, IF c = None THEN examples ELSE Append(examples, c)))

RECURSIVE ScanBlocks(_, _)
ScanBlocks(blocks, examples) ==
    IF Len(blocks) = 0 \/ Len(examples) >= MaxExamples THEN examples
    ELSE ScanBlocks(Tail(blocks), ScanBlock(Split(blocks[1], NL), 2, examples))

\* extract_examples(doc)
extract_examples(doc) == ScanBlocks(CodeBlocks(DocClean(doc, 1), 1), <<>>)

(***************************************************************************)
(* parse_gleam_file                                                        *)
(***************************************************************************)
SrcRoot == <<"g","l","e","a","m","-","s","t","d","l","i","b","/","s","r","c","/">>
GleamExt == <<".","g","l","e","a","m">>
QuadSlash == <<"/","/","/","/">>
Heading == <<"#","#">>
ExamplesHeading == <<"#","#"," ","E","x","a","m","p","l","e","s">>
ThisFunction == <<"t","h","i","s"," ","f","u","n","c","t","i","o","n">>
Useful == <<"u","s","e","f","u","l">>
This == <<"t","h","i","s">>

\* The lengths a fallback line must lie strictly between.
MinHelpfulLen == 10
MaxHelpfulLen == 200

\* The module name of a file: its path relative to 'gleam-stdlib/src', every
\* '.gleam' removed, '/' replaced by '.'.
ModuleName(file_path) ==
    ReplaceChar(RemoveAll(From(file_path, Len(SrcRoot) + 1), GleamExt, 1), "/", ".")

\* Whether the lookahead (?=\n\n|\n[^/]|\Z) holds at position e of s.
DescriptionEnds(s, e) ==
    \/ e = Len(s) + 1
    \/ /\ e < Len(s)
       /\ s[e] = NL
       /\ (s[e + 1] = NL \/ s[e + 1] # "/")

\* The group (.+?) that starts at position start: it ends at the first place after
\* start where the lookahead holds.
DescriptionFrom(s, start) ==
    SubSeq(s, start, First({e \in start + 1..Len(s) + 1 : DescriptionEnds(s, e)}) - 1)

\* r'^////\s*(.+?)(?=\n\n|\n[^/]|\Z)' (MULTILINE, DOTALL) tried at position p: the
\* greedy \s* takes all the whitespace unless that leaves nothing for the group;
\* the lazy group ends at the first place the lookahead holds.  None when nothing
\* follows '////'.
DescriptionAt(s, p) ==
    IF p + 4 > Len(s) THEN None
    ELSE Bind(SkipSpace(s, p + 4), LAMBDA w :
         DescriptionFrom(s, IF w <= Len(s) THEN w ELSE w - 1))

\* Whether the description pattern matches at position p of the content.
DescriptionMatchAt(content, p) ==
    /\ p = 1 \/ content[p - 1] = NL
    /\ MatchAt(content, QuadSlash, p)
    /\ p + 4 <= Len(content)

\* module_description
ModuleDescription(content) ==
    Bind(First({p \in 1..Len(content) : DescriptionMatchAt(content, p)}), LAMBDA p :
    IF p = 0 THEN <<>> ELSE Strip(DescriptionAt(content, p)))

\* doc_line.replace('///', '').strip()
CleanLine(doc_line) == Strip(RemoveAll(doc_line, TripleSlash, 1))

\* Whether a line is a documentation-comment line.
IsDocLine(line) == StartsWith(Strip(line), TripleSlash)

\* The documentation block of the declaration at lines[i]: the unbroken run of
\* documentation lines that ends right before it.
DocLines(lines, i) ==
    SubSeq(lines, First({j \in 1..i : \A k \in j..i - 1 : IsDocLine(lines[k])}), i - 1)

\* The documentation lines, each cleaned.
CleanLines(doc_lines) == [k \in 1..Len(doc_lines) |-> CleanLine(doc_lines[k])]

\* purpose: the first documentation line that, cleaned, is not empty and is no
\* '##' heading.
PurposeOf(cleaned) ==
    Bind(First({k \in 1..Len(cleaned) :
                   cleaned[k] # <<>> /\ ~StartsWith(cleaned[k], Heading)}), LAMBDA k :
    IF k = 0 THEN <<>> ELSE cleaned[k])

Purpose(doc_lines) == Bind(CleanLines(doc_lines), LAMBDA cleaned : PurposeOf(cleaned))

\* str.lower for one character.
Lower(c) ==
    CASE c = "A" -> "a" [] c = "B" -> "b" [] c = "C" -> "c" [] c = "D" -> "d"
      [] c = "E" -> "e" [] c = "F" -> "f" [] c = "G" -> "g" [] c = "H" -> "h"
      [] c = "I" -> "i" [] c = "J" -> "j" [] c = "K" -> "k" [] c = "L" -> "l"
      [] c = "M" -> "m" [] c = "N" -> "n" [] c = "O" -> "o" [] c = "P" -> "p"
      [] c = "Q" -> "q" [] c = "R" -> "r" [] c = "S" -> "s" [] c = "T" -> "t"
      [] c = "U" -> "u" [] c = "V" -> "v" [] c = "W" -> "w" [] c = "X" -> "x"
      [] c = "Y" -> "y" [] c = "Z" -> "z" [] OTHER -> c

\* Whether word (in lower case) occurs in s at position i, whatever the case.
MatchAtIgnoreCase(s, word, i) ==
    /\ i + Len(word) - 1 <= Len(s)
    /\ \A k \in 1..Len(word) : Lower(s[i + k - 1]) = word[k]

\* re.sub(r'## Examples.*', '', s, flags=re.DOTALL)
DropExamples(s) ==
    Bind(FindFrom(s, ExamplesHeading, 1), LAMBDA p :
    IF p = 0 THEN s ELSE SubSeq(s, 1, p - 1))

\* re.sub of 'FENCE .*? FENCE' (DOTALL) by '': every fenced stretch is removed; a
\* fence that is never closed stays.
RECURSIVE DropFenced(_, _)
DropFenced(s, i) ==
    Bind(FindFrom(s, Fence, i), LAMBDA p :
    IF p = 0 THEN From(s, i) ELSE
    Bind(FindFrom(s, Fence, p + 3), LAMBDA q :
    IF q = 0 THEN From(s, i)
    ELSE SubSeq(s, i, p - 1) \o DropFenced(s, q + 3)))

\* re.sub of 'FENCE .*' by '': from every fence to the end of its line.
RECURSIVE DropFenceToEol(_, _)
DropFenceToEol(s, i) ==
    Bind(FindFrom(s, Fence, i), LAMBDA p :
    IF p = 0 THEN From(s, i) ELSE
    Bind(FindFrom(s, <<NL>>, p), LAMBDA e :
    IF e = 0 THEN SubSeq(s, i, p - 1)
    ELSE SubSeq(s, i, p - 1) \o DropFenceToEol(s, e)))

\* s.split(): the words of s from position i on.
RECURSIVE Words(_, _)
Words(s, i) ==
    Bind(SkipSpace(s, i), LAMBDA a :
    IF a > Len(s) THEN <<>> ELSE
    Bind(First({j \in a..Len(s) + 1 : j = Len(s) + 1 \/ IsSpace(s[j])}), LAMBDA b :
    <<SubSeq(s, a, b - 1)>> \o Words(s, b)))

\* ' '.join(s.split())
JoinWords(s) == Join(Words(s, 1), <<" ">>)

\* The least position >= i of s that holds '.', 0 when none.
NextPeriod(s, i) == FindFrom(s, <<".">>, i)

\* re.search(word + r'[^.]+\.[^.]*\.', s, IGNORECASE) tried at position p: the
\* word, at least one character that is no period, a period, and on to the next
\* period.  The position of that last period, 0 when there is no match at p.
SentenceEnd(s, word, p) ==
    IF ~MatchAtIgnoreCase(s, word, p) THEN 0 ELSE
    Bind(NextPeriod(s, p + Len(word)), LAMBDA q1 :
    IF q1 > p + Len(word) THEN NextPeriod(s, q1 + 1) ELSE 0)

\* The matched text, None when there is no match.
SentenceMatch(s, word) ==
    Bind(First({p \in 1..Len(s) : SentenceEnd(s, word, p) # 0}), LAMBDA p :
    IF p = 0 THEN None ELSE SubSeq(s, p, SentenceEnd(s, word, p)))

\* helpful_text cleaned up: the '///' and the fences to the end of their lines
\* removed, the whitespace normalised.
CleanHelpful(helpful_text) ==
    JoinWords(DropFenceToEol(RemoveAll(helpful_text, TripleSlash, 1), 1))

\* The text kept from one pattern: the match cleaned up, or '' when the pattern
\* does not match or the cleaned text is too short or still holds a fence.
HelpfulFrom(doc_for_helpful, word) ==
    Bind(SentenceMatch(doc_for_helpful, word), LAMBDA m :
    IF m = None THEN <<>> ELSE
    Bind(CleanHelpful(Strip(m)), LAMBDA cleaned :
    IF Len(cleaned) > MinHelpfulLen /\ ~Contains(cleaned, Fence) THEN cleaned ELSE <<>>))

\* Whether a cleaned documentation line can be the fallback text.
FallbackLine(clean_line) ==
    /\ clean_line # <<>>
    /\ ~StartsWith(clean_line, Heading)
    /\ ~Contains(clean_line, Fence)
    /\ Len(clean_line) < MaxHelpfulLen
    /\ Len(clean_line) > MinHelpfulLen

\* The fallback: the first documentation line after the first one that, cleaned,
\* is not empty, is no heading, holds no fence and has a length strictly between
\* MinHelpfulLen and MaxHelpfulLen.
FallbackOf(cleaned) ==
    Bind(First({k \in 2..Len(cleaned) : FallbackLine(cleaned[k])}), LAMBDA k :
    IF k = 0 THEN <<>> ELSE cleaned[k])

FallbackHelpful(doc_lines) ==
    Bind(CleanLines(doc_lines), LAMBDA cleaned : FallbackOf(cleaned))

\* The patterns tried in order from patterns[i] on: the first text kept, '' when
\* none is.
RECURSIVE PatternHelpful(_, _, _)
PatternHelpful(doc_for_helpful, patterns, i) ==
    IF i > Len(patterns) THEN <<>>
    ELSE Bind(HelpfulFrom(doc_for_helpful, patterns[i]), LAMBDA h :
         IF h # <<>> THEN h ELSE PatternHelpful(doc_for_helpful, patterns, i + 1))

\* whyHelpful: the patterns in order, then the fallback.
WhyHelpful(doc_lines) ==
    Bind(PatternHelpful(DropFenced(DropExamples(Join(doc_lines, <<NL>>)), 1),
                        <<ThisFunction, Useful, This>>, 1), LAMBDA h :
    IF h # <<>> THEN h ELSE FallbackHelpful(doc_lines))

\* The Function built from a parsed signature and its documentation block.
FunctionOf(func_info, doc_lines, module_name) ==
    [name |-> func_info.name,
     parameters |-> func_info.parameters,
     returnType |-> func_info.returnType,
     purpose |-> Purpose(doc_lines),
     whyHelpful |-> WhyHelpful(doc_lines),
     examples |-> extract_examples(Join(doc_lines, <<NL>>)),
     module |-> module_name]

\* The Function of the declaration at lines[i], in a list; the empty list when its
\* signature does not parse.
FunctionAt(lines, i, module_name) ==
    Bind(parse_function_signature(lines, i), LAMBDA func_info :
    IF func_info = NoneInfo THEN <<>>
    ELSE Bind(DocLines(lines, i), LAMBDA doc_lines :
         <<FunctionOf(func_info, doc_lines, module_name)>>))

\* The functions found from lines[i] on: one for each line that starts (stripped)
\* with 'pub fn ' and whose signature parses, in source order.
RECURSIVE FunctionsFrom(_, _, _)
FunctionsFrom(lines, i, module_name) ==
    IF i > Len(lines) THEN <<>>
    ELSE (IF StartsWith(Strip(lines[i]), PubFnSp)
          THEN FunctionAt(lines, i, module_name)
          ELSE <<>>)
         \o FunctionsFrom(lines, i + 1, module_name)

\* parse_gleam_file(file_path), lines being the file's content split at '\n'.
parse_gleam_file(file_path, lines) ==
    Bind(ModuleName(file_path), LAMBDA module_name :
    [name |-> module_name,
     description |-> ModuleDescription(Join(lines, <<NL>>)),
     functions |-> FunctionsFrom(lines, 1, module_name)])

(***************************************************************************)
(* Emission: generate_module_jsonld, generate_docs_jsonld,                 *)
(* generate_types_jsonld.  A document is modelled by the value handed to   *)
(* json.dump ('@id', '@type', '@context', '@graph' are written id, type,   *)
(* context, graph).                                                        *)
(***************************************************************************)
ExPrefix == <<"e","x",":">>
ModuleSuffix == <<"_","m","o","d","u","l","e">>
JsonldExt == <<".","j","s","o","n","l","d">>
DocsFile == <<"d","o","c","s",".","j","s","o","n","l","d">>
TypesFile == <<"g","l","e","a","m","/","g","l","e","a","m","-","t","y","p","e","s",".","j","s","o","n","l","d">>

Context == [vocab |-> "https://aalang.org/spec", ex |-> "https://aalang.org/example/"]

\* module_id: the module name with '.' and '/' replaced by '_'.
ModuleId(name) == ReplaceChar(ReplaceChar(name, ".", "_"), "/", "_")

\* func_id
FunctionId(module_name, func_name) ==
    ExPrefix \o ModuleId(module_name) \o <<"_">> \o func_name

\* The '@id' of a module's node, in its document and in the index.
ModuleNodeId(module_name) == ExPrefix \o ModuleId(module_name) \o ModuleSuffix

\* module_file: the module name with '.' replaced by '/', then '.jsonld'.
ModuleFile(module_name) == ReplaceChar(module_name, ".", "/") \o JsonldExt

FunctionNode(module_data, func) ==
    [id |-> FunctionId(module_data.name, func.name),
     type |-> "Function",
     name |-> func.name,
     module |-> module_data.name,
     purpose |-> func.purpose,
     parameters |-> func.parameters,
     returnType |-> func.returnType,
     whyHelpful |-> func.whyHelpful,
     examples |-> func.examples]

\* The node of the module itself: it lists the ids of the function nodes.
ModuleNode(module_data, function_nodes) ==
    [id |-> ModuleNodeId(module_data.name),
     type |-> "Module",
     name |-> module_data.name,
     description |-> module_data.description,
     functions |-> [k \in 1..Len(function_nodes) |-> [id |-> function_nodes[k].id]]]

generate_module_jsonld(module_data) ==
    Bind([k \in 1..Len(module_data.functions) |->
             FunctionNode(module_data, module_data.functions[k])],
         LAMBDA function_nodes :
         [context |-> Context,
          graph |-> <<ModuleNode(module_data, function_nodes)>> \o function_nodes])

\* The index's entry of one module.
ModuleRef(module_data) ==
    [id |-> ModuleNodeId(module_data.name),
     name |-> module_data.name,
     file |-> ModuleFile(module_data.name),
     functionCount |-> Len(module_data.functions)]

generate_docs_jsonld(modules_list) ==
    [context |-> Context,
     graph |-> <<[id |-> "ex:docs_index",
                  type |-> "DocumentationIndex",
                  modules |-> [k \in 1..Len(modules_list) |-> ModuleRef(modules_list[k])],
                  typesFile |-> TypesFile]>>]

\* The fixed type catalog (names and constructor names; the descriptions are
\* fixed text).
generate_types_jsonld ==
    [context |-> Context,
     graph |-> <<[id |-> "ex:Result", type |-> "Type", name |-> "Result",
                  constructors |-> <<"Ok", "Error">>],
                 [id |-> "ex:Option", type |-> "Type", name |-> "Option",
                  constructors |-> <<"Some", "None">>],
                 [id |-> "ex:List", type |-> "Type", name |-> "List",
                  constructors |-> <<>>],
                 [id |-> "ex:Dict", type |-> "Type", name |-> "Dict",
                  constructors |-> <<>>],
                 [id |-> "ex:Order", type |-> "Type", name |-> "Order",
                  constructors |-> <<"Lt", "Eq", "Gt">>]>>]

(***************************************************************************)
(* The file system as main uses it.                                        *)
(***************************************************************************)
\* The positions of the '/' of a path.
Slashes(path) == {i \in 1..Len(path) : path[i] = "/"}

\* Path(file).parent: '' for a file of the working directory.
ParentDir(file) ==
    Bind(Last(Slashes(file)), LAMBDA p : IF p = 0 THEN <<>> ELSE SubSeq(file, 1, p - 1))

\* The directories mkdir(parents=True, exist_ok=True) makes sure exist.
WithParents(file) == {SubSeq(file, 1, i - 1) : i \in Slashes(file)}

\* open(file, 'w') succeeds when the file's directory exists (the working directory
\* always does); otherwise it raises FileNotFoundError.
CanOpen(file, existing) == ParentDir(file) = <<>> \/ ParentDir(file) \in existing

\* The characters of a path in the order of their code points.
CharOrder ==
    <<"-",".","/","0","1","2","3","4","5","6","7","8","9",
      "A","B","C","D","E","F","G","H","I","J","K","L","M","N","O","P","Q","R",
      "S","T","U","V","W","X","Y","Z","_",
      "a","b","c","d","e","f","g","h","i","j","k","l","m","n","o","p","q","r",
      "s","t","u","v","w","x","y","z">>

Ord(c) == CHOOSE k \in 1..Len(CharOrder) : CharOrder[k] = c

\* a < b for two strings.
TextLess(a, b) ==
    \E k \in 1..Len(b) :
        /\ k - 1 <= Len(a)
        /\ SubSeq(a, 1, k - 1) = SubSeq(b, 1, k - 1)
        /\ (k = Len(a) + 1 \/ Ord(a[k]) < Ord(b[k]))

\* a < b for two paths: the comparison of their parts.
PartsLess(pa, pb) ==
    \E k \in 1..Len(pb) :
        /\ k - 1 <= Len(pa)
        /\ SubSeq(pa, 1, k - 1) = SubSeq(pb, 1, k - 1)
        /\ (k = Len(pa) + 1 \/ TextLess(pa[k], pb[k]))

PathLess(a, b) == PartsLess(Split(a, "/"), Split(b, "/"))

Range(seq) == {seq[k] : k \in 1..Len(seq)}

\* The files taken as rglob yields them, the sorting left out.
unsorted(paths) == paths

\* sorted(paths) for a sequence of distinct paths.
sorted(paths) ==
    [k \in 1..Len(paths) |->
        CHOOSE p \in Range(paths) :
            Cardinality({q \in Range(paths) : PathLess(q, p)}) = k - 1]

(***************************************************************************)
(* The run of main as a state machine.                                     *)
(***************************************************************************)
VARIABLES
    tree,       \* the source tree: file path -> [readable, lines]
    dirs,       \* the directories that exist in the output location
    found,      \* the files in the order rglob yields them
    queue,      \* the files main has still to parse, in sorted order
    modules,    \* main's list of module data
    written,    \* the files this run has written, in order: [file, data]
    console,    \* the lines this run has printed
    emitted,    \* how many per-module files the last loop has written
    pc,         \* where main is
    previous,   \* what the run before this one found and produced
    given,      \* the input a single file was built from
    content,    \* the lines of the single file handed to parse_gleam_file
    parsed      \* what parse_gleam_file returned for it

vars == <<tree, dirs, found, queue, modules, written, console, emitted, pc,
          previous, given, content, parsed>>

\* The most files the source tree holds.
MaxFiles == 2

FileA == <<"g","l","e","a","m","-","s","t","d","l","i","b","/","s","r","c","/","g","l","e","a","m","/","a",".","g","l","e","a","m">>
FileAB == <<"g","l","e","a","m","-","s","t","d","l","i","b","/","s","r","c","/","g","l","e","a","m","/","a","_","b",".","g","l","e","a","m">>
FileSub == <<"g","l","e","a","m","-","s","t","d","l","i","b","/","s","r","c","/","g","l","e","a","m","/","a","/","b",".","g","l","e","a","m">>
GleamDir == <<"g","l","e","a","m">>

\* gleam/a.gleam, gleam/a_b.gleam, gleam/a/b.gleam under gleam-stdlib/src
SourcePaths == {FileA, FileAB, FileSub}

\* "//// Counters." / "" / "/// Adds one." / "pub fn inc(x: Int) -> Int {" /
\* "  x + 1" / "}"
GoodLines ==
    << <<"/","/","/","/"," ","C","o","u","n","t","e","r","s",".">>,
       <<>>,
       <<"/","/","/"," ","A","d","d","s"," ","o","n","e",".">>,
       <<"p","u","b"," ","f","n"," ","i","n","c","(","x",":"," ","I","n","t",")"," ","-",">"," ","I","n","t"," ","{">>,
       <<" "," ","x"," ","+"," ","1">>,
       <<"}">> >>

\* "pub fn module() -> Int {" / "  1" / "}"
ModuleFnLines ==
    << <<"p","u","b"," ","f","n"," ","m","o","d","u","l","e","(",")"," ","-",">"," ","I","n","t"," ","{">>,
       <<" "," ","1">>,
       <<"}">> >>

\* "pub fn broken(x) {" / "  x" / "}": no declaration of it parses
BrokenLines ==
    << <<"p","u","b"," ","f","n"," ","b","r","o","k","e","n","(","x",")"," ","{">>,
       <<" "," ","x">>,
       <<"}">> >>

\* What a source file may be: one of the texts above, or a file that read_text
\* cannot read (parse_gleam_file raises).
FileContents ==
    {[readable |-> TRUE, lines |-> l] :
        l \in {GoodLines, ModuleFnLines, BrokenLines}}
    \cup {[readable |-> FALSE, lines |-> <<>>]}

Trees ==
    UNION {[P -> FileContents] :
              P \in {Q \in SUBSET SourcePaths : Cardinality(Q) <= MaxFiles}}

\* Every order in which rglob may yield the files of a set.
Orders(S) ==
    {o \in [1..Cardinality(S) -> S] : \A i, j \in DOMAIN o : i # j => o[i] # o[j]}

NoRun == [none |-> TRUE]

Init ==
    /\ tree \in Trees
    /\ dirs \in {{}, {GleamDir}}
    /\ found = <<>>
    /\ queue = <<>>
    /\ modules = <<>>
    /\ written = <<>>
    /\ console = <<>>
    /\ emitted = 0
    /\ pc = "start"
    /\ previous = NoRun
    /\ given = <<>>
    /\ content = <<>>
    /\ parsed = NoneInfo

\* for file_path in sorted(stdlib_path.rglob('*.gleam')): rglob yields the files in
\* an order of the file system's choosing; main sorts them.
Discover ==
    /\ pc = "start"
    /\ \E o \in Orders(DOMAIN tree) :
           /\ found' = o
           /\ queue' = sorted(o)
    /\ pc' = "parse"
    /\ UNCHANGED <<tree, dirs, modules, written, console, emitted, previous,
                   given, content, parsed>>

\* One turn of the loop, parse_gleam_file returning: the module is kept when it
\* has functions.
ParseFile ==
    /\ pc = "parse"
    /\ queue # <<>>
    /\ tree[Head(queue)].readable
    /\ modules' = Bind(parse_gleam_file(Head(queue), tree[Head(queue)].lines),
                       LAMBDA module_data :
                       IF Len(module_data.functions) > 0
                       THEN Append(modules, module_data)
                       ELSE modules)
    /\ queue' = Tail(queue)
    /\ UNCHANGED <<tree, dirs, found, written, console, emitted, pc, previous,
                   given, content, parsed>>

\* One turn of the loop, parse_gleam_file raising: the error is printed and the
\* loop goes on with the next file.
ParseFails ==
    /\ pc = "parse"
    /\ queue # <<>>
    /\ ~tree[Head(queue)].readable
    /\ console' = Append(console, [line |-> "Error parsing", file |-> Head(queue)])
    /\ queue' = Tail(queue)
    /\ UNCHANGED <<tree, dirs, found, modules, written, emitted, pc, previous,
                   given, content, parsed>>

\* docs.jsonld is written into the working directory.
WriteIndex ==
    /\ pc = "parse"
    /\ queue = <<>>
    /\ written' = Append(written, [file |-> DocsFile, data |-> generate_docs_jsonld(modules)])
    /\ console' = Append(console, [line |-> "Generated docs.jsonld", count |-> Len(modules)])
    /\ pc' = "types"
    /\ UNCHANGED <<tree, dirs, found, queue, modules, emitted, previous,
                   given, content, parsed>>

\* gleam/gleam-types.jsonld is opened for writing: no directory is made for it.
WriteTypes ==
    /\ pc = "types"
    /\ CanOpen(TypesFile, dirs)
    /\ written' = Append(written, [file |-> TypesFile, data |-> generate_types_jsonld])
    /\ console' = Append(console, [line |-> "Generated gleam/gleam-types.jsonld"])
    /\ pc' = "modules"
    /\ UNCHANGED <<tree, dirs, found, queue, modules, emitted, previous,
                   given, content, parsed>>

\* open raises FileNotFoundError; nothing catches it and the run ends there.
WriteTypesFails ==
    /\ pc = "types"
    /\ ~CanOpen(TypesFile, dirs)
    /\ pc' = "failed"
    /\ UNCHANGED <<tree, dirs, found, queue, modules, written, console, emitted,
                   previous, given, content, parsed>>

\* One turn of the last loop: the module file's directories are made, the file is
\* written.
WriteModule ==
    /\ pc = "modules"
    /\ emitted < Len(modules)
    /\ LET module_data == modules[emitted + 1]
           module_file == ModuleFile(module_data.name)
       IN  /\ dirs' = dirs \cup WithParents(module_file)
           /\ written' = Append(written, [file |-> module_file,
                                          data |-> generate_module_jsonld(module_data)])
           /\ console' = Append(console, [line |-> "Generated", file |-> module_file,
                                          count |-> Len(module_data.functions)])
    /\ emitted' = emitted + 1
    /\ UNCHANGED <<tree, found, queue, modules, pc, previous, given, content, parsed>>

\* main returns.
Finish ==
    /\ pc = "modules"
    /\ emitted = Len(modules)
    /\ pc' = "done"
    /\ UNCHANGED <<tree, dirs, found, queue, modules, written, console, emitted,
                   previous, given, content, parsed>>

\* The tool is run again on the unchanged tree, in the output location as the run
\* before left it.
Rerun ==
    /\ pc \in {"done", "failed"}
    /\ previous = NoRun
    /\ previous' = [found |-> found, written |-> written, console |-> console, pc |-> pc]
    /\ found' = <<>>
    /\ queue' = <<>>
    /\ modules' = <<>>
    /\ written' = <<>>
    /\ console' = <<>>
    /\ emitted' = 0
    /\ pc' = "start"
    /\ UNCHANGED <<tree, dirs, given, content, parsed>>

Next ==
    \/ Discover
    \/ ParseFile
    \/ ParseFails
    \/ WriteIndex
    \/ WriteTypes
    \/ WriteTypesFails
    \/ WriteModule
    \/ Finish
    \/ Rerun

Spec == Init /\ [][Next]_vars

(***************************************************************************)
(* parse_gleam_file on one file.  The file is built from a description     *)
(* (given) that the properties below compare the result with; the three    *)
(* specifications differ in the files they build.                          *)
(***************************************************************************)
\* Every sequence of at most n elements of S.
SeqsUpTo(S, n) == UNION {[1..m -> S] : m \in 0..n}

\* The file is read and parsed: main's call of parse_gleam_file.
ParseGleamFile ==
    /\ pc = "file"
    /\ parsed' = parse_gleam_file(FileA, content)
    /\ pc' = "parsed"
    /\ UNCHANGED <<tree, dirs, found, queue, modules, written, console, emitted,
                   previous, given, content>>

NextFile == ParseGleamFile

\* The state before the file is parsed; nothing of a run of main is in it.
InitFile ==
    /\ tree = <<>>
    /\ dirs = {}
    /\ found = <<>>
    /\ queue = <<>>
    /\ modules = <<>>
    /\ written = <<>>
    /\ console = <<>>
    /\ emitted = 0
    /\ pc = "file"
    /\ previous = NoRun
    /\ parsed = NoneInfo

(***************************************************************************)
(* Files of declaration lines.                                             *)
(***************************************************************************)
\* The most lines of a file of declarations.
MaxDeclLines == 3

\* "pub fn foo(x) {", "pub fn bar(y: Int) -> Int {", "  x", "}",
\* "pub fn baz() -> {", "  case x {"
DeclCatalogue ==
    << <<"p","u","b"," ","f","n"," ","f","o","o","(","x",")"," ","{">>,
       <<"p","u","b"," ","f","n"," ","b","a","r","(","y",":"," ","I","n","t",")"," ","-",">"," ","I","n","t"," ","{">>,
       <<" "," ","x">>,
       <<"}">>,
       <<"p","u","b"," ","f","n"," ","b","a","z","(",")"," ","-",">"," ","{">>,
       <<" "," ","c","a","s","e"," ","x"," ","{">> >>

DeclFile(picked) == [k \in 1..Len(picked) |-> DeclCatalogue[picked[k]]]

InitDecl ==
    /\ InitFile
    /\ given \in {[lines |-> l] :
                     l \in SeqsUpTo(1..Len(DeclCatalogue), MaxDeclLines) \ {<<>>}}
    /\ content = DeclFile(given.lines)

SpecDecl == InitDecl /\ [][NextFile]_vars

(***************************************************************************)
(* Files of one declaration with a parameter list.                         *)
(***************************************************************************)
\* The most parameters of the declaration.
MaxParams == 3

\* "x", "acc"
ParamNames == {<<"x">>, <<"a","c","c">>}

\* "Int", "List(Result(a, e))", "fn(a, b) -> c", "Dict<k, v>"
ParamTypes ==
    {<<"I","n","t">>,
     <<"L","i","s","t","(","R","e","s","u","l","t","(","a",","," ","e",")",")">>,
     <<"f","n","(","a",","," ","b",")"," ","-",">"," ","c">>,
     <<"D","i","c","t","<","k",","," ","v",">">>}

\* "name: Type"
ParamText(param) == param.name \o <<":"," ">> \o param.type

OpenDecl == <<"p","u","b"," ","f","n"," ","f","(">>
CloseDecl == <<")"," ","-",">"," ","I","n","t"," ","{">>
BodyLines == << <<" "," ","t","o","d","o">>, <<"}">> >>

\* "pub fn f(p1, p2) -> Int {" on one line.
OneLineDecl(params) ==
    << OpenDecl
       \o Join([k \in 1..Len(params) |-> ParamText(params[k])], <<","," ">>)
       \o CloseDecl >>

\* "pub fn f(" / "  p1," / "  p2," / ") -> Int {": the declaration wrapped, one
\* parameter a line.
WrappedDecl(params) ==
    <<OpenDecl>>
    \o [k \in 1..Len(params) |-> <<" "," ">> \o ParamText(params[k]) \o <<",">>]
    \o <<CloseDecl>>

SigFile(sig) ==
    (IF sig.wrapped THEN WrappedDecl(sig.params) ELSE OneLineDecl(sig.params))
    \o BodyLines

InitSig ==
    /\ InitFile
    /\ given \in {[params |-> ps, wrapped |-> w] :
                     ps \in SeqsUpTo([name : ParamNames, type : ParamTypes], MaxParams),
                     w \in BOOLEAN}
    /\ content = SigFile(given)

SpecSig == InitSig /\ [][NextFile]_vars

(***************************************************************************)
(* Files of one declaration with a documentation block.                    *)
(***************************************************************************)
\* The most lines of prose and the most lines of a fenced block.
MaxProseLines == 2
MaxBlockLines == 3

\* "Short.", "A longer second line.", "", "## Examples"
ProseCatalogue ==
    << <<"S","h","o","r","t",".">>,
       <<"A"," ","l","o","n","g","e","r"," ","s","e","c","o","n","d"," ","l","i","n","e",".">>,
       <<>>,
       <<"#","#"," ","E","x","a","m","p","l","e","s">> >>

\* "some_call(1, 2)", "", "// -> 3", "|> other(3)"
CodeCatalogue ==
    << <<"s","o","m","e","_","c","a","l","l","(","1",","," ","2",")">>,
       <<>>,
       <<"/","/"," ","-",">"," ","3">>,
       <<"|",">"," ","o","t","h","e","r","(","3",")">> >>

\* A documentation-comment line: "/// text", "///" for a blank one.
DocLine(text) == IF Len(text) = 0 THEN TripleSlash ELSE TripleSlash \o <<" ">> \o text

PlainDecl == <<"p","u","b"," ","f","n"," ","f","(",")"," ","-",">"," ","I","n","t"," ","{">>

\* The lines of prose a description picks, and the lines of code of its block.
ProseOf(doc) == [k \in 1..Len(doc.prose) |-> ProseCatalogue[doc.prose[k]]]
CodeOf(doc) == [k \in 1..Len(doc.block) |-> CodeCatalogue[doc.block[k]]]

\* The block in its fences.
FencedOf(doc) ==
    <<Fence \o <<"g","l","e","a","m">>>> \o CodeOf(doc) \o <<Fence>>

\* The documentation block: the prose, then the fenced block when there is one.
DocBlock(doc) ==
    Bind(ProseOf(doc) \o (IF doc.fenced THEN FencedOf(doc) ELSE <<>>), LAMBDA texts :
    [k \in 1..Len(texts) |-> DocLine(texts[k])])

DocFile(doc) == DocBlock(doc) \o <<PlainDecl>> \o BodyLines

InitDoc ==
    /\ InitFile
    /\ given \in {[prose |-> p, fenced |-> f, block |-> b] :
                     p \in SeqsUpTo(1..Len(ProseCatalogue), MaxProseLines),
                     f \in BOOLEAN,
                     b \in SeqsUpTo(1..Len(CodeCatalogue), MaxBlockLines)}
    /\ given.fenced \/ Len(given.block) = 0
    /\ content = DocFile(given)

SpecDoc == InitDoc /\ [][NextFile]_vars

(***************************************************************************)
(* Properties of parse_function_signature and parse_gleam_file             *)
(* (SpecDecl, SpecSig, SpecDoc).                                           *)
(***************************************************************************)
\* What a reader of a declaration line sees in it.
IsDeclaration(line) == StartsWith(Strip(line), PubFnSp)
DeclaredName(line) == SubSeq(Strip(line), 8, FindFrom(Strip(line), <<"(">>, 1) - 1)
DeclaredReturn(line) ==
    IF Contains(line, Arrow)
    THEN Strip(SubSeq(line, FindFrom(line, Arrow, 1) + 2, FindFrom(line, <<"{">>, 1) - 1))
    ELSE <<>>
HasNoArrow(line) == IsDeclaration(line) /\ ~Contains(line, Arrow)
IsValidDeclaration(line) == IsDeclaration(line) /\ Len(DeclaredReturn(line)) > 0

\* The number of entries of a sequence that satisfy a test.
HowMany(seq, Test(_)) == Cardinality({k \in 1..Len(seq) : Test(seq[k])})

\* C1: a declaration with no '->' yields no Function, whatever lines follow it,
\* and every valid declaration of the same file yields its own Function: no
\* Function bears the name of a declaration without '->', and each valid
\* declaration's name and return type are borne by as many Functions as there are
\* lines declaring it.
C1_NoArrowDropped ==
    pc = "parsed" =>
        /\ \A i \in 1..Len(content) :
              HasNoArrow(content[i]) =>
                  \A k \in 1..Len(parsed.functions) :
                      parsed.functions[k].name # DeclaredName(content[i])
        /\ \A i \in 1..Len(content) :
              IsValidDeclaration(content[i]) =>
                  HowMany(parsed.functions,
                          LAMBDA f : /\ f.name = DeclaredName(content[i])
                                     /\ f.returnType = DeclaredReturn(content[i]))
                  = HowMany(content, LAMBDA line : line = content[i])

\* C2: every Function of the list parse_gleam_file returns has a non-empty name
\* and a non-empty returnType.
C2_NameAndReturnType ==
    pc = "parsed" =>
        \A k \in 1..Len(parsed.functions) :
            /\ Len(parsed.functions[k].name) > 0
            /\ Len(parsed.functions[k].returnType) > 0

\* C4: the parameter list is split only at the commas of depth 0: a declaration
\* built from N parameters "name: Type", the types with nested commas among them,
\* yields N parameters, each with its name and its whole type, in source order.
C4_ParametersSplitAtDepth0 ==
    pc = "parsed" =>
        /\ Len(parsed.functions) = 1
        /\ Len(parsed.functions[1].parameters) = Len(given.params)
        /\ \A k \in 1..Len(given.params) :
              /\ parsed.functions[1].parameters[k].name = given.params[k].name
              /\ parsed.functions[1].parameters[k].type = given.params[k].type

\* "List(Result(a, e))"
NestedType == <<"L","i","s","t","(","R","e","s","u","l","t","(","a",","," ","e",")",")">>

\* A declaration of three parameters, one of them of the nested type, has been
\* parsed into three parameters.
C4_Witness ==
    /\ pc = "parsed"
    /\ Len(given.params) = 3
    /\ given.params[2].type = NestedType
    /\ Len(parsed.functions) = 1
    /\ Len(parsed.functions[1].parameters) = 3
    /\ parsed.functions[1].parameters[2].type = NestedType

\* Whether a trimmed line qualifies as an example, as the documentation of
\* extract_examples has it.
Qualifies(line) ==
    /\ Len(line) > 0
    /\ ~StartsWith(line, <<"/","/">>)
    /\ ~StartsWith(line, <<"i","m","p","o","r","t">>)
    /\ ~StartsWith(line, <<"l","e","t">>)

\* A leading '|>' stripped.
Unpiped(line) == IF StartsWith(line, Pipe) THEN Strip(From(line, 3)) ELSE line

\* The examples of a block read line by line: each line before a marker line,
\* trimmed, when it qualifies and is not held yet; at most MaxExamples.
RECURSIVE ExamplesByLine(_, _, _)
ExamplesByLine(code, k, held) ==
    IF k > Len(code) \/ Len(held) >= MaxExamples THEN held
    ELSE IF /\ Contains(code[k], Marker)
            /\ Qualifies(Strip(code[k - 1]))
            /\ ~InSeq(Unpiped(Strip(code[k - 1])), held)
         THEN ExamplesByLine(code, k + 1, Append(held, Unpiped(Strip(code[k - 1]))))
         ELSE ExamplesByLine(code, k + 1, held)

\* C5: the examples of a function are the first MaxExamples distinct qualifying
\* lines that stand immediately before a marker line of its fenced block; a blank
\* line before the marker yields no example.
C5_ExamplesByLine ==
    pc = "parsed" =>
        /\ Len(parsed.functions) = 1
        /\ parsed.functions[1].examples = ExamplesByLine(CodeOf(given), 2, <<>>)

\* Whether none of the explanatory sentence patterns matches the documentation.
NoPatternMatches(doc_lines) ==
    Len(PatternHelpful(DropFenced(DropExamples(Join(doc_lines, <<NL>>)), 1),
                       <<ThisFunction, Useful, This>>, 1)) = 0

\* The second documentation line, cleaned, when it can be the fallback text; ''
\* otherwise.
SecondLineOnly(doc_lines) ==
    IF Len(doc_lines) >= 2 /\ FallbackLine(CleanLine(doc_lines[2]))
    THEN CleanLine(doc_lines[2])
    ELSE <<>>

\* C9: when no pattern matches, whyHelpful is the second documentation line if
\* that line can be the fallback text, and '' otherwise: never a later line.
C9_SecondLineFallback ==
    (pc = "parsed" /\ NoPatternMatches(DocBlock(given))) =>
        /\ Len(parsed.functions) = 1
        /\ parsed.functions[1].whyHelpful = SecondLineOnly(DocBlock(given))

(***************************************************************************)
(* Properties of a run of main (Spec).                                     *)
(***************************************************************************)
\* The run has ended: main has returned, or an error has ended it.
Ended == pc \in {"done", "failed"}

\* The files the run has written.
WrittenFiles == {written[k].file : k \in 1..Len(written)}

\* The module entries of the index the run has written (none before it is).
IndexEntries ==
    UNION {Range(written[k].data.graph[1].modules) :
              k \in {j \in 1..Len(written) : written[j].file = DocsFile}}

\* The source files whose extraction raises an error, and those whose extraction
\* yields at least one function.
FailingFiles == {p \in DOMAIN tree : ~tree[p].readable}
EmittableFiles ==
    {p \in DOMAIN tree :
        /\ tree[p].readable
        /\ Len(parse_gleam_file(p, tree[p].lines).functions) > 0}

\* C3: after a run the modules of the index, and identically the per-module files
\* written, are exactly the source files that were read without error and hold at
\* least one function; no module of the index has zero functions.
C3_EmittedModules ==
    Ended =>
        /\ {e.name : e \in IndexEntries} = {ModuleName(p) : p \in EmittableFiles}
        /\ {e.file : e \in IndexEntries} = WrittenFiles \ {DocsFile, TypesFile}
        /\ \A e \in IndexEntries : e.functionCount > 0

\* The lines of the console that report an error for a file.
ErrorLines(p) ==
    {k \in 1..Len(console) :
        console[k] = [line |-> "Error parsing", file |-> p]}

\* C6: when the extraction of a file raises an error, the error is logged once,
\* the file's module is in no output, every other file is still processed, and the
\* run reaches emission and ends normally.
C6_FailureTolerated ==
    (Ended /\ FailingFiles # {}) =>
        /\ pc = "done"
        /\ \A p \in FailingFiles :
              /\ Cardinality(ErrorLines(p)) = 1
              /\ ModuleFile(ModuleName(p)) \notin WrittenFiles
              /\ \A e \in IndexEntries : e.name # ModuleName(p)
        /\ \A p \in EmittableFiles :
              /\ \E e \in IndexEntries : e.name = ModuleName(p)
              /\ ModuleFile(ModuleName(p)) \in WrittenFiles

\* Whether the modules of an index stand in the sorted order of their source
\* files.
InPathOrder(entries) ==
    \A i, j \in 1..Len(entries) :
        i < j =>
            \E p, q \in DOMAIN tree :
                /\ ModuleName(p) = entries[i].name
                /\ ModuleName(q) = entries[j].name
                /\ PathLess(p, q)

C8_ParentsCreated ==
    (Ended /\ Len(modules) > 0) =>
        /\ pc = "done"
        /\ DocsFile \in WrittenFiles
        /\ TypesFile \in WrittenFiles
        /\ \A e \in IndexEntries : e.file \in WrittenFiles

\* Whether the entries of a sequence of nodes with pairwise distinct names have
\* pairwise distinct ids.
DistinctIds(nodes) ==
    \A i, j \in 1..Len(nodes) : i # j => nodes[i].id # nodes[j].id
DistinctNames(nodes) ==
    \A i, j \in 1..Len(nodes) : i # j => nodes[i].name # nodes[j].name

\* C10: in every per-module document whose functions have pairwise distinct names
\* all ids of the graph, the module node's among them, are pairwise distinct; and
\* in the index, modules of distinct names have distinct ids.
C10_DistinctIds ==
    \A k \in 1..Len(written) :
        IF written[k].file = DocsFile
        THEN \A e1, e2 \in IndexEntries : e1.name # e2.name => e1.id # e2.id
        ELSE IF written[k].file = TypesFile THEN TRUE
        ELSE DistinctNames(Tail(written[k].data.graph))
             => DistinctIds(written[k].data.graph)

====
